---- MODULE Spec2Model ----
(***************************************************************************)
(* The three scripts of the repository (llama_intro.py, test_gemini.py,    *)
(* test.py) as one state machine.  A run is one execution of one script:   *)
(* its position is pc, its process environment is environ/dotenv/fs, and   *)
(* every call into the RAG library or a provider is appended to calls.     *)
(* The outcomes of library calls (success, or an exception of some type)   *)
(* are inputs chosen by the environment at each step.                      *)
(***************************************************************************)
EXTENDS Integers, Sequences, FiniteSets, TLC

VARIABLES script,       \* which script the process runs
          pc,           \* position in the script
          environ,      \* os.environ[<credential variable>], an optional string
          dotenv,       \* the value the .env file gives the variable, optional
          fs,           \* the directories that exist
          api_key,      \* the credential loader's return value, optional
          llm,          \* the constructed LLM object, optional
          index,        \* the built index, optional
          doc_count,    \* the count returned beside the index, optional
          query_engine, \* the query engine, optional
          similarity,   \* similarity of each chunk of the index to the query
          nodes,        \* the retrieval result handed to the synthesizer
          response,     \* the query's response, optional
          exc,          \* the exception that escaped the failed stage, optional
          libexc,       \* the library failure raised inside that stage, optional
          started,      \* the stages entered, in order
          done,         \* the stages that returned normally, in order
          calls,        \* every library / provider interaction, in order
          log,          \* the log records, in order
          stdout,       \* what was printed
          uncaught,     \* the exception that ended the process, optional
          exitcode      \* the exit status, optional

vars == <<script, pc, environ, dotenv, fs, api_key, llm, index, doc_count,
          query_engine, similarity, nodes, response, exc, libexc, started,
          done, calls, log, stdout, uncaught, exitcode>>

(***************************************************************************)
(* Bounds of the model.                                                    *)
(***************************************************************************)
MaxDocs == 2
MaxChunks == 6

(***************************************************************************)
(* Program constants.  Similarity scores are in tenths: 8 is 0.8.          *)
(***************************************************************************)
SimilarityTopK == 5
SimilarityCutoff == 8
GeminiTopK == 10

Scores == {7, 8, 9}

(***************************************************************************)
(* Optional values: None is the empty sequence, Some(v) a one-element one. *)
(***************************************************************************)
None == <<>>
Some(v) == <<v>>

Secrets == {"", "sk-1"}
EnvValues == {None} \cup {Some(s) : s \in Secrets}
Paths == {"data"}

\* Python truthiness of an optional string: None and "" are falsy.
Truthy(v) == v # None /\ v[1] # ""

(***************************************************************************)
(* Exceptions.  A message is the sequence of its parts.                    *)
(***************************************************************************)
Exc(t, m) == [type |-> t, msg |-> m, cause |-> None]
ExcFrom(t, m, c) == [type |-> t, msg |-> m, cause |-> Some([type |-> c.type, msg |-> c.msg])]

\* The exception types a library call may raise.
LibErrors == {"FileNotFoundError", "ValueError", "RuntimeError", "PermissionError"}
LibExc(t) == Exc(t, <<"library failure">>)

\* The classes an exception type is an instance of.
Mro(t) ==
  CASE t = "FileNotFoundError" -> {"FileNotFoundError", "OSError", "Exception"}
    [] t = "PermissionError" -> {"PermissionError", "OSError", "Exception"}
    [] OTHER -> {t, "Exception"}
IsInstance(e, cls) == cls \in Mro(e.type)

\* The outcome of a library call: success, or an exception of some type.
Outcomes == {"ok"} \cup LibErrors

\* The outcome of a call to a provider (embedding, completion).
ProviderOutcomes == {"ok", "ConnectionError"}

(***************************************************************************)
(* What a function call gives back: a return value or an exception, the    *)
(* log records it wrote and the library calls it made.                     *)
(***************************************************************************)
Return(v, lg, cl) == [ret |-> Some(v), exc |-> None, lib |-> None, log |-> lg, calls |-> cl]
Raised(e, lb, lg, cl) == [ret |-> None, exc |-> Some(e), lib |-> lb, log |-> lg, calls |-> cl]

Rec(level, text) == <<level, text>>

\* One interaction with the library or a provider: what was called, how it
\* ended ("ok" or the exception type) and how many items it returned.
Call(fn, out, n) == [fn |-> fn, out |-> out, n |-> n]
OutOf(o) == IF o.ok THEN "ok" ELSE o.type

\* dotenv.load_dotenv(): a variable the process already has is kept.
load_dotenv(env, file) == IF env = None THEN file ELSE env

(***************************************************************************)
(* llama_intro.py                                                          *)
(***************************************************************************)

\* A credential loader's result also carries the environment it leaves.
Loaded(v, env, lg) == [ret |-> Some(v), exc |-> None, lib |-> None, log |-> lg, calls |-> <<>>, env |-> env]
NotLoaded(e, env, lg) == [ret |-> None, exc |-> Some(e), lib |-> None, log |-> lg, calls |-> <<>>, env |-> env]

\* load_api_key with the emptiness check left out.
load_api_key_unchecked(env, file) ==
  LET env1 == load_dotenv(env, file)
  IN Loaded(env1, env1, <<Rec("INFO", "Successfully loaded OpenAI API key from environment.")>>)

load_api_key(env, file) ==
  LET env1 == load_dotenv(env, file)
      key == env1
  IN IF ~Truthy(key)
     THEN NotLoaded(Exc("ValueError", <<"OPEN_API_KEY is missing.">>), env1,
                    <<Rec("ERROR", "OPEN_API_KEY not found. Please set the API key in environment variables."),
                      Rec("ERROR", "Error loading API key.")>>)
     ELSE Loaded(key[1], key, <<Rec("INFO", "Successfully loaded OpenAI API key from environment.")>>)

\* configure_llm: o is the outcome of the OpenAI constructor.
configure_llm(key, o) ==
  IF o = "ok"
  THEN Return("OpenAI", <<Rec("INFO", "LLM successfully configured with OpenAI settings.")>>, <<Call("OpenAI", o, 0)>>)
  ELSE Raised(LibExc(o), Some(LibExc(o)), <<Rec("ERROR", "Error configuring LLM.")>>, <<Call("OpenAI", o, 0)>>)

\* What the directory reader and the index builder may do.
Docs(n) == [i \in 1..n |-> i]
ReaderOutcomes == {[ok |-> TRUE, n |-> n, type |-> "-"] : n \in 0..MaxDocs}
                  \cup {[ok |-> FALSE, n |-> 0, type |-> t] : t \in LibErrors}
IndexOutcomes == {[ok |-> TRUE, n |-> n, type |-> "-"] : n \in 1..MaxChunks}
                 \cup {[ok |-> FALSE, n |-> 0, type |-> t] : t \in LibErrors}

\* The outer handlers of load_documents_and_index: each logs and re-raises.
outer_handlers(e) ==
  IF IsInstance(e, "FileNotFoundError") THEN <<Rec("ERROR", "FileNotFoundError")>>
  ELSE IF IsInstance(e, "ValueError") THEN <<Rec("WARNING", "ValueError")>>
  ELSE IF IsInstance(e, "RuntimeError") THEN <<Rec("ERROR", "RuntimeError")>>
  ELSE <<Rec("ERROR", "An unexpected error occurred while processing documents or creating the index.")>>

\* The reader's failure passed on as it is, without the wrapping.
reader_failure_unwrapped(e) == e

\* The wrapping of a reader / index-builder failure.
reader_failure(e) == ExcFrom("RuntimeError", <<"Document loading failed: ">> \o e.msg, e)
index_failure(e) == ExcFrom("RuntimeError", <<"Index creation failed: ">> \o e.msg, e)

\* The emptiness test left out.
no_documents_never(documents) == FALSE

\* "if not documents": the reader gave no document.
no_documents(documents) == documents = <<>>

\* The error of a missing directory with the path left out of the message.
directory_not_found_no_path(data_dir) == Exc("FileNotFoundError", <<"Directory not found.">>)

\* The error of a missing directory.
directory_not_found(data_dir) == Exc("FileNotFoundError", <<"Directory '", data_dir, "' not found.">>)

\* The body of the outer try of load_documents_and_index.
load_documents_and_index_body(data_dir, dirs, ro, io) ==
  IF data_dir \notin dirs
  THEN Raised(directory_not_found(data_dir), None,
              <<Rec("ERROR", "Data directory does not exist.")>>, <<>>)
  ELSE LET lg1 == <<Rec("INFO", "Loading documents from directory")>>
           cl1 == <<Call("SimpleDirectoryReader.load_data", OutOf(ro), ro.n)>>
       IN IF ~ro.ok
          THEN Raised(reader_failure(LibExc(ro.type)), Some(LibExc(ro.type)),
                      lg1 \o <<Rec("ERROR", "Failed to load data using SimpleDirectoryReader.")>>, cl1)
          ELSE LET documents == Docs(ro.n)
               IN IF no_documents(documents)
                  THEN Raised(Exc("ValueError", <<"No documents available to load.">>), None,
                              lg1 \o <<Rec("WARNING", "No documents found in the specified directory.")>>, cl1)
                  ELSE LET lg2 == lg1 \o <<Rec("INFO", "Successfully loaded documents.")>>
                           cl2 == cl1 \o <<Call("VectorStoreIndex.from_documents", OutOf(io), io.n)>>
                       IN IF ~io.ok
                          THEN Raised(index_failure(LibExc(io.type)), Some(LibExc(io.type)),
                                      lg2 \o <<Rec("ERROR", "Failed to create VectorStoreIndex.")>>, cl2)
                          ELSE Return([index |-> [docs |-> documents, chunks |-> io.n],
                                       count |-> Len(documents)],
                                      lg2 \o <<Rec("INFO", "VectorStoreIndex created successfully.")>>, cl2)

load_documents_and_index(data_dir, dirs, ro, io) ==
  LET r == load_documents_and_index_body(data_dir, dirs, ro, io)
  IN IF r.exc = None THEN r
     ELSE [r EXCEPT !.log = r.log \o outer_handlers(r.exc[1])]

(***************************************************************************)
(* The query pipeline that setup_query_engine configures.  The source only *)
(* constructs its parts; what they do is taken from the specification of   *)
(* the query pipeline: embed the query, retrieve the top-K chunks by       *)
(* descending similarity, discard those below the cutoff, synthesize.      *)
(***************************************************************************)

\* The chunks of an index, each with its similarity to the query.
Scored(sim) == {[id |-> i, score |-> sim[i]] : i \in 1..Len(sim)}

\* The best of a non-empty set of scored chunks (the earlier chunk on a tie).
Best(S) == CHOOSE n \in S : \A m \in S : m.score < n.score \/ (m.score = n.score /\ n.id <= m.id)

RECURSIVE Ranked(_)
\* The chunks by descending similarity.
Ranked(S) == IF S = {} THEN <<>> ELSE <<Best(S)>> \o Ranked(S \ {Best(S)})

Take(seq, k) == IF Len(seq) <= k THEN seq ELSE SubSeq(seq, 1, k)

\* VectorIndexRetriever(similarity_top_k = k).retrieve
Retrieve(retriever, sim) == Take(Ranked(Scored(sim)), retriever.similarity_top_k)

\* SimilarityPostprocessor(similarity_cutoff = c).postprocess_nodes
KeepNode(pp, n) == n.score >= pp.similarity_cutoff
Postprocess(pp, ns) == SelectSeq(ns, LAMBDA n : KeepNode(pp, n))

RECURSIVE ApplyPostprocessors(_, _)
\* RetrieverQueryEngine applies its node postprocessors in order.
ApplyPostprocessors(pps, ns) ==
  IF pps = <<>> THEN ns ELSE ApplyPostprocessors(Tail(pps), Postprocess(Head(pps), ns))

\* RetrieverQueryEngine.retrieve: the retriever, then the postprocessors.
EngineRetrieve(engine, sim) == ApplyPostprocessors(engine.node_postprocessors, Retrieve(engine.retriever, sim))

\* The defined response of a query that found no relevant context.
NoRelevantContextResponse == [text |-> "no relevant context", source_nodes |-> <<>>]
NoRelevantContextError == Exc("NoRelevantContextError", <<"no relevant context">>)
Answer(ns) == [text |-> "answer", source_nodes |-> ns]

\* What synthesis over an empty retrieval set may do: return the defined
\* response, or raise the no-relevant-context error.
EmptyContextOutcomes == {"ok", "NoRelevantContextError"}

\* The synthesizer.  Without nodes it either returns the defined response or
\* raises NoRelevantContextError (outcome zo); with nodes it makes the
\* completion call (outcome lo).
Synthesize(ns, lo, zo) ==
  IF ns = <<>>
  THEN IF zo = "ok" THEN Return(NoRelevantContextResponse, <<>>, <<Call("synthesize", zo, 0)>>)
       ELSE Raised(NoRelevantContextError, Some(NoRelevantContextError), <<>>,
                   <<Call("synthesize", zo, 0)>>)
  ELSE IF lo = "ok" THEN Return(Answer(ns), <<>>, <<Call("llm.complete", lo, 0)>>)
  ELSE Raised(LibExc(lo), Some(LibExc(lo)), <<>>, <<Call("llm.complete", lo, 0)>>)

\* The query pipeline: eo is the outcome of embedding the query, sim the
\* similarity of each chunk, lo and zo the outcomes of synthesis.
EngineQuery(engine, eo, sim, lo, zo) ==
  IF eo # "ok" THEN Raised(LibExc(eo), Some(LibExc(eo)), <<>>, <<Call("embed_query", eo, 0)>>) @@ [nodes |-> <<>>]
  ELSE LET ns == EngineRetrieve(engine, sim)
           r == Synthesize(ns, lo, zo)
       IN [r EXCEPT !.calls = <<Call("embed_query", eo, 0)>> \o r.calls] @@ [nodes |-> ns]

\* setup_query_engine with the top-K of test_gemini.py.
setup_query_engine_top10(idx, o) ==
  IF o = "ok"
  THEN Return([retriever |-> [index |-> idx, similarity_top_k |-> GeminiTopK],
               response_mode |-> "compact",
               node_postprocessors |-> <<[similarity_cutoff |-> SimilarityCutoff]>>],
              <<Rec("INFO", "RetrieverQueryEngine successfully configured.")>>,
              <<Call("RetrieverQueryEngine", o, 0)>>)
  ELSE Raised(LibExc(o), Some(LibExc(o)), <<Rec("ERROR", "Error setting up query engine.")>>,
              <<Call("RetrieverQueryEngine", o, 0)>>)

\* setup_query_engine: o is the outcome of the library constructors.
setup_query_engine(idx, o) ==
  IF o = "ok"
  THEN Return([retriever |-> [index |-> idx, similarity_top_k |-> SimilarityTopK],
               response_mode |-> "compact",
               node_postprocessors |-> <<[similarity_cutoff |-> SimilarityCutoff]>>],
              <<Rec("INFO", "RetrieverQueryEngine successfully configured.")>>,
              <<Call("RetrieverQueryEngine", o, 0)>>)
  ELSE Raised(LibExc(o), Some(LibExc(o)), <<Rec("ERROR", "Error setting up query engine.")>>,
              <<Call("RetrieverQueryEngine", o, 0)>>)

\* execute_query with a handler that logs the failure and returns.
execute_query_swallow(engine, eo, sim, lo, zo) ==
  LET r == EngineQuery(engine, eo, sim, lo, zo)
      lg1 == <<Rec("INFO", "Executing query")>>
  IN IF r.exc = None
     THEN [r EXCEPT !.log = lg1 \o <<Rec("INFO", "Query executed successfully.")>>]
     ELSE [r EXCEPT !.log = lg1 \o <<Rec("ERROR", "Error executing query.")>>,
                    !.exc = None, !.lib = None, !.ret = Some(NoRelevantContextResponse)]

\* execute_query: logs, runs the query, logs; a failure is logged and re-raised.
execute_query(engine, eo, sim, lo, zo) ==
  LET r == EngineQuery(engine, eo, sim, lo, zo)
      lg1 == <<Rec("INFO", "Executing query")>>
  IN IF r.exc = None
     THEN [r EXCEPT !.log = lg1 \o <<Rec("INFO", "Query executed successfully.")>>]
     ELSE [r EXCEPT !.log = lg1 \o <<Rec("ERROR", "Error executing query.")>>]

(***************************************************************************)
(* test_gemini.py                                                          *)
(***************************************************************************)

load_env_vars(env, file) ==
  LET env1 == load_dotenv(env, file)
      google_api_key == env1
  IN IF google_api_key = None
     THEN NotLoaded(Exc("ValueError", <<"GOOGLE_API_KEY not found.">>), env1,
                    <<Rec("ERROR", "GOOGLE_API_KEY not found in environment variables."),
                      Rec("ERROR", "Error loading environment variables.")>>)
     ELSE Loaded(google_api_key[1], env1, <<Rec("INFO", "Environment variables loaded successfully.")>>)

\* create_llm: the credential first, then the Gemini constructor (outcome o).
create_llm(env, file, o) ==
  LET k == load_env_vars(env, file)
  IN IF k.exc # None
     THEN [k EXCEPT !.log = k.log \o <<Rec("ERROR", "Error creating Google Gemini model.")>>]
     ELSE IF o = "ok"
     THEN [k EXCEPT !.log = k.log \o <<Rec("INFO", "Google Gemini model created successfully.")>>,
                    !.calls = <<Call("Gemini", o, 0)>>]
     ELSE [k EXCEPT !.ret = None, !.exc = Some(LibExc(o)), !.lib = Some(LibExc(o)),
                    !.log = k.log \o <<Rec("ERROR", "Error creating Google Gemini model.")>>,
                    !.calls = <<Call("Gemini", o, 0)>>]

\* create_index: reads "data" and builds the index; any failure is logged
\* and re-raised as it is.
create_index(ro, io) ==
  LET cl1 == <<Call("SimpleDirectoryReader.load_data", OutOf(ro), ro.n)>>
      cl2 == cl1 \o <<Call("VectorStoreIndex.from_documents", OutOf(io), io.n)>>
      lgx == <<Rec("ERROR", "Error creating index.")>>
  IN IF ~ro.ok THEN Raised(LibExc(ro.type), Some(LibExc(ro.type)), lgx, cl1)
     ELSE IF ~io.ok THEN Raised(LibExc(io.type), Some(LibExc(io.type)), lgx, cl2)
     ELSE Return([docs |-> Docs(ro.n), chunks |-> IF ro.n = 0 THEN 0 ELSE io.n],
                 <<Rec("INFO", "Index created successfully.")>>, cl2)

\* Lines 63-66 of main: the retriever and the query engine.
gemini_query_engine(idx, o) ==
  IF o = "ok"
  THEN Return([retriever |-> [index |-> idx, similarity_top_k |-> GeminiTopK],
               response_mode |-> "compact",
               node_postprocessors |-> <<>>],
              <<Rec("INFO", "Retriever and query engine set up successfully.")>>,
              <<Call("RetrieverQueryEngine", o, 0)>>)
  ELSE Raised(LibExc(o), Some(LibExc(o)), <<>>, <<Call("RetrieverQueryEngine", o, 0)>>)

(***************************************************************************)
(* The state machine.                                                      *)
(***************************************************************************)
Scripts == {"llama_intro", "test_gemini", "test"}
FirstPc(s) == CASE s = "llama_intro" -> "li_start"
                [] s = "test_gemini" -> "tg_module"
                [] s = "test" -> "t_module"

ScoreVectors(n) == [1..n -> Scores]

Init ==
  /\ script \in Scripts
  /\ pc = FirstPc(script)
  /\ environ \in EnvValues
  /\ dotenv \in EnvValues
  /\ fs \in SUBSET Paths
  /\ api_key = None /\ llm = None /\ index = None /\ doc_count = None
  /\ query_engine = None /\ similarity = <<>> /\ nodes = <<>> /\ response = None
  /\ exc = None /\ libexc = None
  /\ started = <<>> /\ done = <<>> /\ calls = <<>> /\ log = <<>> /\ stdout = <<>>
  /\ uncaught = None /\ exitcode = None

\* A stage was called and gave r: the bookkeeping every stage shares.
Stage(name, r, okpc, failpc) ==
  /\ started' = Append(started, name)
  /\ calls' = calls \o r.calls
  /\ IF r.exc = None
     THEN /\ done' = Append(done, name)
          /\ pc' = okpc
          /\ UNCHANGED <<exc, libexc>>
     ELSE /\ done' = done
          /\ pc' = failpc
          /\ exc' = r.exc
          /\ libexc' = r.lib

\* ---- llama_intro.py: main ----

LI_Start ==
  /\ pc = "li_start"
  /\ pc' = "li_load_api_key"
  /\ log' = Append(log, Rec("INFO", "Starting the application."))
  /\ UNCHANGED <<script, environ, dotenv, fs, api_key, llm, index, doc_count, query_engine,
                 similarity, nodes, response, exc, libexc, started, done, calls, stdout,
                 uncaught, exitcode>>

LI_LoadApiKey ==
  /\ pc = "li_load_api_key"
  /\ LET r == load_api_key(environ, dotenv)
     IN /\ Stage("load_api_key", r, "li_configure_llm", "li_except")
        /\ environ' = r.env
        /\ api_key' = r.ret
        /\ log' = log \o r.log
  /\ UNCHANGED <<script, dotenv, fs, llm, index, doc_count, query_engine, similarity, nodes,
                 response, stdout, uncaught, exitcode>>

LI_ConfigureLlm ==
  /\ pc = "li_configure_llm"
  /\ \E o \in Outcomes :
       LET r == configure_llm(api_key, o)
       IN /\ Stage("configure_llm", r, "li_load_documents_and_index", "li_except")
          /\ llm' = r.ret
          /\ log' = log \o r.log
  /\ UNCHANGED <<script, environ, dotenv, fs, api_key, index, doc_count, query_engine,
                 similarity, nodes, response, stdout, uncaught, exitcode>>

LI_LoadDocumentsAndIndex ==
  /\ pc = "li_load_documents_and_index"
  /\ \E ro \in ReaderOutcomes, io \in IndexOutcomes :
       LET data_directory == "data"
           r == load_documents_and_index(data_directory, fs, ro, io)
       IN /\ Stage("load_documents_and_index", r, "li_setup_query_engine", "li_except")
          /\ IF r.exc = None
             THEN /\ index' = Some(r.ret[1].index)
                  /\ doc_count' = Some(r.ret[1].count)
                  /\ log' = log \o r.log \o <<Rec("INFO", "Number of documents loaded")>>
             ELSE /\ UNCHANGED <<index, doc_count>>
                  /\ log' = log \o r.log
  /\ UNCHANGED <<script, environ, dotenv, fs, api_key, llm, query_engine, similarity, nodes,
                 response, stdout, uncaught, exitcode>>

LI_SetupQueryEngine ==
  /\ pc = "li_setup_query_engine"
  /\ \E o \in Outcomes :
       LET r == setup_query_engine(index[1], o)
       IN /\ Stage("setup_query_engine", r, "li_execute_query", "li_except")
          /\ query_engine' = r.ret
          /\ log' = log \o r.log
  /\ UNCHANGED <<script, environ, dotenv, fs, api_key, llm, index, doc_count, similarity,
                 nodes, response, stdout, uncaught, exitcode>>

LI_ExecuteQuery ==
  /\ pc = "li_execute_query"
  /\ \E eo \in ProviderOutcomes, lo \in ProviderOutcomes, zo \in EmptyContextOutcomes,
        sim \in ScoreVectors(index[1].chunks) :
       LET r == execute_query(query_engine[1], eo, sim, lo, zo)
       IN /\ Stage("execute_query", r, "li_print", "li_except")
          /\ similarity' = IF eo = "ok" THEN sim ELSE <<>>
          /\ nodes' = r.nodes
          /\ response' = r.ret
          /\ log' = log \o r.log
  /\ UNCHANGED <<script, environ, dotenv, fs, api_key, llm, index, doc_count, query_engine,
                 stdout, uncaught, exitcode>>

\* Lines 165-166: the response is logged and printed.
LI_Print ==
  /\ pc = "li_print"
  /\ pc' = "li_finally"
  /\ log' = Append(log, Rec("INFO", "Response"))
  /\ stdout' = Append(stdout, <<"Query Response:", response[1].text>>)
  /\ UNCHANGED <<script, environ, dotenv, fs, api_key, llm, index, doc_count, query_engine,
                 similarity, nodes, response, exc, libexc, started, done, calls, uncaught,
                 exitcode>>

\* main's handler re-raising the error after the log record.
LI_Except_reraise ==
  /\ pc = "li_except"
  /\ pc' = "exit"
  /\ log' = Append(log, Rec("CRITICAL", "Application failed to execute due to an error"))
  /\ uncaught' = exc
  /\ exitcode' = Some(1)
  /\ UNCHANGED <<script, environ, dotenv, fs, api_key, llm, index, doc_count, query_engine,
                 similarity, nodes, response, exc, libexc, started, done, calls, stdout>>

\* main's handler without the critical log record.
LI_Except_silent ==
  /\ pc = "li_except"
  /\ pc' = "li_finally"
  /\ UNCHANGED <<script, environ, dotenv, fs, api_key, llm, index, doc_count, query_engine,
                 similarity, nodes, response, exc, libexc, started, done, calls, log, stdout,
                 uncaught, exitcode>>

\* Lines 168-169: any Exception of the try block is logged as critical.
LI_Except ==
  /\ pc = "li_except"
  /\ pc' = "li_finally"
  /\ log' = Append(log, Rec("CRITICAL", "Application failed to execute due to an error"))
  /\ UNCHANGED <<script, environ, dotenv, fs, api_key, llm, index, doc_count, query_engine,
                 similarity, nodes, response, exc, libexc, started, done, calls, stdout,
                 uncaught, exitcode>>

\* Lines 170-171, then main returns and the process ends.
LI_Finally ==
  /\ pc = "li_finally"
  /\ pc' = "exit"
  /\ log' = Append(log, Rec("INFO", "Application execution completed."))
  /\ exitcode' = Some(0)
  /\ UNCHANGED <<script, environ, dotenv, fs, api_key, llm, index, doc_count, query_engine,
                 similarity, nodes, response, exc, libexc, started, done, calls, stdout,
                 uncaught>>

\* ---- test_gemini.py: the module, then main ----

\* Line 10: load_dotenv() as the module is imported.
TG_Module ==
  /\ pc = "tg_module"
  /\ pc' = "tg_create_llm"
  /\ environ' = load_dotenv(environ, dotenv)
  /\ UNCHANGED <<script, dotenv, fs, api_key, llm, index, doc_count, query_engine, similarity,
                 nodes, response, exc, libexc, started, done, calls, log, stdout, uncaught,
                 exitcode>>

TG_CreateLlm ==
  /\ pc = "tg_create_llm"
  /\ \E o \in Outcomes :
       LET r == create_llm(environ, dotenv, o)
       IN /\ started' = started \o <<"create_llm", "load_env_vars">>
          /\ calls' = calls \o r.calls
          /\ log' = log \o r.log
          /\ environ' = r.env
          /\ api_key' = IF r.exc = None \/ r.lib # None THEN Some(r.env[1]) ELSE None
          /\ llm' = IF r.exc = None THEN Some("Gemini") ELSE None
          /\ IF r.exc = None
             THEN /\ done' = done \o <<"load_env_vars", "create_llm">>
                  /\ pc' = "tg_create_index"
                  /\ UNCHANGED <<exc, libexc>>
             ELSE /\ done' = IF r.lib # None THEN Append(done, "load_env_vars") ELSE done
                  /\ pc' = "tg_except"
                  /\ exc' = r.exc
                  /\ libexc' = r.lib
  /\ UNCHANGED <<script, dotenv, fs, index, doc_count, query_engine, similarity, nodes,
                 response, stdout, uncaught, exitcode>>

\* The reader cannot return documents of a directory that does not exist.
TG_CreateIndex ==
  /\ pc = "tg_create_index"
  /\ \E ro \in ReaderOutcomes, io \in IndexOutcomes :
       /\ "data" \notin fs => ~ro.ok
       /\ LET r == create_index(ro, io)
          IN /\ Stage("create_index", r, "tg_query_engine", "tg_except")
             /\ index' = r.ret
             /\ log' = log \o r.log
  /\ UNCHANGED <<script, environ, dotenv, fs, api_key, llm, doc_count, query_engine,
                 similarity, nodes, response, stdout, uncaught, exitcode>>

TG_QueryEngine ==
  /\ pc = "tg_query_engine"
  /\ \E o \in Outcomes :
       LET r == gemini_query_engine(index[1], o)
       IN /\ Stage("query_engine", r, "tg_query", "tg_except")
          /\ query_engine' = r.ret
          /\ log' = log \o r.log
  /\ UNCHANGED <<script, environ, dotenv, fs, api_key, llm, index, doc_count, similarity,
                 nodes, response, stdout, uncaught, exitcode>>

\* Lines 69-71: the query, whose results are logged.
TG_Query ==
  /\ pc = "tg_query"
  /\ \E eo \in ProviderOutcomes, lo \in ProviderOutcomes, zo \in EmptyContextOutcomes,
        sim \in ScoreVectors(index[1].chunks) :
       LET r == EngineQuery(query_engine[1], eo, sim, lo, zo)
       IN /\ Stage("query", r, "tg_return", "tg_except")
          /\ similarity' = IF eo = "ok" THEN sim ELSE <<>>
          /\ nodes' = r.nodes
          /\ response' = r.ret
          /\ log' = IF r.exc = None THEN Append(log, Rec("INFO", "Query results")) ELSE log
  /\ UNCHANGED <<script, environ, dotenv, fs, api_key, llm, index, doc_count, query_engine,
                 stdout, uncaught, exitcode>>

\* main's handler that logs the exception and lets the process end normally.
TG_Except_swallow ==
  /\ pc = "tg_except"
  /\ pc' = "exit"
  /\ log' = Append(log, Rec("ERROR", "Error in main function."))
  /\ exitcode' = Some(0)
  /\ UNCHANGED <<script, environ, dotenv, fs, api_key, llm, index, doc_count, query_engine,
                 similarity, nodes, response, exc, libexc, started, done, calls, stdout,
                 uncaught>>

\* Lines 73-75: main logs the exception and re-raises it; nothing catches
\* it, so the process ends with a traceback and status 1.
TG_Except ==
  /\ pc = "tg_except"
  /\ pc' = "exit"
  /\ log' = Append(log, Rec("ERROR", "Error in main function."))
  /\ uncaught' = exc
  /\ exitcode' = Some(1)
  /\ UNCHANGED <<script, environ, dotenv, fs, api_key, llm, index, doc_count, query_engine,
                 similarity, nodes, response, exc, libexc, started, done, calls, stdout>>

\* main returns and the process ends.
TG_Return ==
  /\ pc = "tg_return"
  /\ pc' = "exit"
  /\ exitcode' = Some(0)
  /\ UNCHANGED <<script, environ, dotenv, fs, api_key, llm, index, doc_count, query_engine,
                 similarity, nodes, response, exc, libexc, started, done, calls, log, stdout,
                 uncaught>>

\* ---- test.py: the script ----

\* Lines 3-8: load_dotenv(), then the variable is printed.
T_Module ==
  /\ pc = "t_module"
  /\ pc' = "t_check"
  /\ environ' = load_dotenv(environ, dotenv)
  /\ stdout' = Append(stdout, <<"OPEN_API_KEY: ", IF environ' = None THEN "None" ELSE environ'[1]>>)
  /\ UNCHANGED <<script, dotenv, fs, api_key, llm, index, doc_count, query_engine, similarity,
                 nodes, response, exc, libexc, started, done, calls, log, uncaught, exitcode>>

\* Lines 10-13: the module-level credential check.
check_open_api_key(env) ==
  IF ~Truthy(env)
  THEN NotLoaded(Exc("ValueError", <<"API key not found. Please set the OPEN_API_KEY environment variable.">>), env, <<>>)
  ELSE Loaded(env[1], env, <<>>)

T_Check ==
  /\ pc = "t_check"
  /\ LET r == check_open_api_key(environ)
     IN /\ Stage("check", r, "t_complete", "exit")
        /\ api_key' = r.ret
        /\ uncaught' = r.exc
        /\ exitcode' = IF r.exc = None THEN None ELSE Some(1)
  /\ UNCHANGED <<script, environ, dotenv, fs, llm, index, doc_count, query_engine, similarity,
                 nodes, response, log, stdout>>

\* Lines 16-17: the OpenAI object is constructed (outcome o) and asked for a
\* completion (outcome lo).
complete(o, lo) ==
  IF o # "ok" THEN Raised(LibExc(o), Some(LibExc(o)), <<>>, <<Call("OpenAI", o, 0)>>)
  ELSE IF lo # "ok" THEN Raised(LibExc(lo), Some(LibExc(lo)), <<>>, <<Call("OpenAI", o, 0), Call("llm.complete", lo, 0)>>)
  ELSE Return([text |-> "completion", source_nodes |-> <<>>], <<>>, <<Call("OpenAI", o, 0), Call("llm.complete", lo, 0)>>)

T_Complete ==
  /\ pc = "t_complete"
  /\ \E o \in Outcomes, lo \in ProviderOutcomes :
       LET r == complete(o, lo)
       IN /\ Stage("complete", r, "t_print", "exit")
          /\ llm' = IF o = "ok" THEN Some("OpenAI") ELSE None
          /\ response' = r.ret
          /\ uncaught' = r.exc
          /\ exitcode' = IF r.exc = None THEN None ELSE Some(1)
  /\ UNCHANGED <<script, environ, dotenv, fs, api_key, index, doc_count, query_engine,
                 similarity, nodes, log, stdout>>

\* Line 19, then the script ends.
T_Print ==
  /\ pc = "t_print"
  /\ pc' = "exit"
  /\ stdout' = Append(stdout, <<response[1].text>>)
  /\ exitcode' = Some(0)
  /\ UNCHANGED <<script, environ, dotenv, fs, api_key, llm, index, doc_count, query_engine,
                 similarity, nodes, response, exc, libexc, started, done, calls, log, uncaught>>

Next ==
  \/ LI_Start \/ LI_LoadApiKey \/ LI_ConfigureLlm \/ LI_LoadDocumentsAndIndex
  \/ LI_SetupQueryEngine \/ LI_ExecuteQuery \/ LI_Print \/ LI_Except \/ LI_Finally
  \/ TG_Module \/ TG_CreateLlm \/ TG_CreateIndex \/ TG_QueryEngine \/ TG_Query
  \/ TG_Except \/ TG_Return
  \/ T_Module \/ T_Check \/ T_Complete \/ T_Print

Spec == Init /\ [][Next]_vars

(***************************************************************************)
(* Vocabulary of the properties.                                           *)
(***************************************************************************)
InSeq(x, seq) == \E i \in 1..Len(seq) : seq[i] = x
IsPrefix(a, b) == Len(a) <= Len(b) /\ \A i \in 1..Len(a) : a[i] = b[i]

\* The value os.getenv gives for the credential variable once load_dotenv ran.
Credential == load_dotenv(environ, dotenv)

\* The stage of each script that loads the credential.
CredStage == CASE script = "llama_intro" -> "load_api_key"
               [] script = "test_gemini" -> "load_env_vars"
               [] script = "test" -> "check"

LIStages == <<"load_api_key", "configure_llm", "load_documents_and_index",
              "setup_query_engine", "execute_query">>
TGStages == <<"load_env_vars", "create_llm", "create_index", "query_engine", "query">>

\* The stage called last raised.
Failed(name) == exc # None /\ started # <<>> /\ started[Len(started)] = name /\ ~InSeq(name, done)

Called(fn) == \E i \in 1..Len(calls) : calls[i].fn = fn
CallEnded(fn, out) == \E i \in 1..Len(calls) : calls[i].fn = fn /\ calls[i].out = out
CallRaised(fn) == \E i \in 1..Len(calls) : calls[i].fn = fn /\ calls[i].out # "ok"
ReaderReturned(n) == InSeq(Call("SimpleDirectoryReader.load_data", "ok", n), calls)
Logged(level) == \E i \in 1..Len(log) : log[i][1] = level
AsCause(e) == Some([type |-> e.type, msg |-> e.msg])

(***************************************************************************)
(* C1. Every credential loader (load_api_key, load_env_vars, the check of  *)
(* test.py) raises ValueError when the variable is unset or empty and      *)
(* returns the secret only when it is non-empty.                           *)
(* Stated as claimed; load_env_vars of test_gemini.py violates it.         *)
(***************************************************************************)
C1_LoadersRejectUnsetOrEmpty ==
  InSeq(CredStage, started) =>
    IF Truthy(Credential)
    THEN api_key = Credential
    ELSE /\ ~InSeq(CredStage, done)
         /\ api_key = None
         /\ exc # None /\ exc[1].type = "ValueError"

(***************************************************************************)
(* C2. In a run whose credential variable is missing (unset in the process *)
(* and in .env), the missing-credential ValueError is raised before any    *)
(* provider interaction: no LLM is constructed, no document read, no index *)
(* built and no query or completion made at any point of the run.  Also,   *)
(* whenever a loader raised that error, nothing had been called.           *)
(***************************************************************************)
C2_MissingCredentialBeforeProvider ==
  /\ Credential = None =>
       /\ calls = <<>> /\ llm = None /\ index = None /\ query_engine = None
       /\ response = None
       /\ IsPrefix(started, IF script = "test_gemini" THEN <<"create_llm", "load_env_vars">>
                            ELSE <<CredStage>>)
       /\ InSeq(CredStage, started) =>
            exc # None /\ exc[1].type = "ValueError" /\ exc[1].cause = None /\ libexc = None
       /\ pc = "exit" => InSeq(CredStage, started)
  /\ (InSeq(CredStage, started) /\ ~InSeq(CredStage, done)) => calls = <<>>

C2_Witness ==
  /\ script = "test_gemini" /\ pc = "exit" /\ Credential = None
  /\ uncaught # None /\ uncaught[1].type = "ValueError" /\ calls = <<>>

(***************************************************************************)
(* C3. When the directory given to load_documents_and_index does not       *)
(* exist, the call raises FileNotFoundError whose message contains the     *)
(* path, that error reaches the caller as it is (no wrapping, no cause),   *)
(* and neither the reader nor the index builder is called.                 *)
(***************************************************************************)
C3_MissingDirectory ==
  (script = "llama_intro" /\ InSeq("load_documents_and_index", started) /\ "data" \notin fs) =>
    /\ Failed("load_documents_and_index")
    /\ exc[1].type = "FileNotFoundError"
    /\ InSeq("data", exc[1].msg)
    /\ exc[1].cause = None /\ libexc = None
    /\ ~Called("SimpleDirectoryReader.load_data")
    /\ ~Called("VectorStoreIndex.from_documents")
    /\ index = None /\ doc_count = None

C3_Witness ==
  /\ script = "llama_intro" /\ "data" \notin fs /\ pc = "li_except"
  /\ Failed("load_documents_and_index") /\ exc[1].type = "FileNotFoundError"

(***************************************************************************)
(* C4. When the directory exists and the reader returns zero documents,    *)
(* load_documents_and_index raises ValueError "No documents available to   *)
(* load." and nothing else, and returns nothing: no index is built and no  *)
(* count 0 is returned.                                                    *)
(***************************************************************************)
C4_NoDocuments ==
  /\ (script = "llama_intro" /\ ReaderReturned(0)) =>
       /\ "data" \in fs
       /\ Failed("load_documents_and_index")
       /\ exc = Some(Exc("ValueError", <<"No documents available to load.">>))
       /\ libexc = None
       /\ ~Called("VectorStoreIndex.from_documents")
       /\ index = None /\ doc_count = None
  /\ script = "llama_intro" => doc_count # Some(0)

C4_Witness ==
  /\ script = "llama_intro" /\ ReaderReturned(0) /\ pc = "exit"
  /\ exc[1].type = "ValueError" /\ index = None

(***************************************************************************)
(* C5, as claimed: every stage of llama_intro.py and test_gemini.py        *)
(* rewraps a library failure into another exception that carries the       *)
(* original as its cause.  configure_llm, setup_query_engine,              *)
(* execute_query and all of test_gemini.py violate it.                     *)
(***************************************************************************)
C5_EveryStageRewraps ==
  (script \in {"llama_intro", "test_gemini"} /\ exc # None /\ libexc # None) =>
    /\ exc[1].cause = AsCause(libexc[1])
    /\ exc[1] # libexc[1]

(***************************************************************************)
(* C5, amended: every stage of llama_intro.py and test_gemini.py logs a    *)
(* failure (the two stages inlined in main of test_gemini.py through       *)
(* main's handler) and re-raises it to its caller and never returns        *)
(* normally after one; only load_documents_and_index rewraps (a reader or  *)
(* index-builder failure becomes RuntimeError with the original as cause), *)
(* every other stage re-raises the original exception as it is.            *)
(***************************************************************************)
C5_StagesLogAndReraise ==
  script \in {"llama_intro", "test_gemini"} =>
    /\ (\E i \in 1..Len(calls) : calls[i].out # "ok") => (exc # None /\ libexc # None)
    /\ exc # None =>
         /\ ~InSeq(started[Len(started)], done) \/ started[Len(started)] = "load_env_vars"
         /\ pc \in {"li_except", "li_finally", "tg_except", "exit"}
         /\ \/ Logged("ERROR") \/ Logged("WARNING")
            \/ pc = "tg_except" /\ (Failed("query_engine") \/ Failed("query"))
         /\ response = None
    /\ (exc # None /\ libexc # None) =>
         /\ calls # <<>> /\ calls[Len(calls)].out = libexc[1].type
         /\ IF Failed("load_documents_and_index")
            THEN /\ exc[1].type = "RuntimeError"
                 /\ exc[1].cause = AsCause(libexc[1])
            ELSE exc = libexc
    /\ (exc # None /\ libexc = None) => exc[1].cause = None

C5_Witness ==
  /\ script = "llama_intro" /\ Failed("setup_query_engine") /\ pc = "li_except"
  /\ libexc # None /\ exc = libexc

(***************************************************************************)
(* C6. In main of llama_intro.py the response is printed only when the     *)
(* five stages succeeded in order; when a stage fails the error is caught  *)
(* at top level and logged as critical, no later stage runs and nothing is *)
(* printed.                                                                *)
(***************************************************************************)
C6_PrintOnlyAfterAllStages ==
  script = "llama_intro" =>
    /\ IsPrefix(started, LIStages) /\ IsPrefix(done, started)
    /\ stdout # <<>> =>
         /\ done = LIStages /\ exc = None /\ response # None
         /\ stdout = <<<<"Query Response:", response[1].text>>>>
    /\ exc # None =>
         /\ started = Append(done, started[Len(started)])
         /\ stdout = <<>>
         /\ uncaught = None
         /\ pc \in {"li_except", "li_finally", "exit"}
         /\ pc \in {"li_finally", "exit"} => Logged("CRITICAL")
    /\ exc = None => ~Logged("CRITICAL")
    /\ (pc = "exit" /\ exc = None) => (done = LIStages /\ stdout # <<>>)

C6_Witness ==
  /\ script = "llama_intro" /\ pc = "exit" /\ Failed("load_documents_and_index")
  /\ Logged("CRITICAL") /\ stdout = <<>> /\ Len(started) = 3

(***************************************************************************)
(* C7, as claimed: main of llama_intro.py and of test_gemini.py end with   *)
(* status 0 exactly when every stage completed, and with an uncaught error *)
(* otherwise.  main of llama_intro.py violates it.                         *)
(***************************************************************************)
C7_ExitZeroIffAllStages ==
  (script \in {"llama_intro", "test_gemini"} /\ pc = "exit") =>
    LET all == IF script = "llama_intro" THEN LIStages ELSE TGStages
    IN /\ (exitcode = Some(0) /\ uncaught = None) <=> done = all
       /\ done # all => (uncaught # None /\ exitcode # Some(0))

(***************************************************************************)
(* C7, amended: main of test_gemini.py ends with status 0 exactly when     *)
(* every stage completed and with the stage's error uncaught otherwise;    *)
(* main of llama_intro.py always returns normally (status 0, nothing       *)
(* uncaught), a failed stage showing only as the critical log record.      *)
(***************************************************************************)
C7_ExitStatus ==
  pc = "exit" =>
    /\ script = "test_gemini" =>
         /\ (exitcode = Some(0) /\ uncaught = None) <=> done = TGStages
         /\ done # TGStages => (exc # None /\ uncaught = exc /\ exitcode = Some(1))
    /\ script = "llama_intro" =>
         /\ exitcode = Some(0) /\ uncaught = None
         /\ done # LIStages <=> Logged("CRITICAL")
         /\ done # LIStages <=> exc # None

C7_Witness ==
  /\ script = "llama_intro" /\ pc = "exit" /\ Failed("configure_llm")
  /\ exitcode = Some(0) /\ uncaught = None

\* The query's retrieval ran: the query was embedded.
Retrieved == CallEnded("embed_query", "ok")
NodeSet == {nodes[i] : i \in 1..Len(nodes)}
AtLeastCutoff == {n \in Scored(similarity) : n.score >= SimilarityCutoff}
Min(a, b) == IF a <= b THEN a ELSE b

(***************************************************************************)
(* C8. The retrieval result of the engine built by setup_query_engine is   *)
(* the chunks by descending similarity, cut to the first top_k (5), less   *)
(* those below the cutoff (0.8): at most top_k entries, each a chunk of    *)
(* the index scoring at least the cutoff, in descending order, none of     *)
(* them ranked outside the top K, and none of the top K at or above the    *)
(* cutoff left out.                                                        *)
(***************************************************************************)
C8_TopKThenCutoff ==
  (script = "llama_intro" /\ Retrieved) =>
    LET S == Scored(similarity)
    IN /\ Len(nodes) <= SimilarityTopK
       /\ NodeSet \subseteq S /\ Cardinality(NodeSet) = Len(nodes)
       /\ \A i \in 1..Len(nodes) : nodes[i].score >= SimilarityCutoff
       /\ \A i \in 1..Len(nodes) - 1 : nodes[i].score >= nodes[i + 1].score
       /\ \A n \in NodeSet : Cardinality({m \in S : m.score > n.score}) < SimilarityTopK
       /\ \A n \in AtLeastCutoff :
            Cardinality({m \in S : m # n /\ m.score >= n.score}) < SimilarityTopK => n \in NodeSet
       /\ Len(nodes) = Min(SimilarityTopK, Cardinality(AtLeastCutoff))

\* More chunks reach the cutoff than top_k admits: one of them is left out.
C8_Witness ==
  /\ script = "llama_intro" /\ Retrieved
  /\ Cardinality(AtLeastCutoff) > SimilarityTopK
  /\ Len(nodes) = SimilarityTopK

(***************************************************************************)
(* C9. When the cutoff exceeds the best similarity any chunk reaches, the  *)
(* filtered retrieval set is empty and the query either returns the        *)
(* defined "no relevant context" response or raises the                    *)
(* no-relevant-context error; execute_query hands either to main, which    *)
(* prints the response or catches the error, and the run does not end in   *)
(* an unhandled exception.  The engine of test_gemini.py has no cutoff, so *)
(* there the retrieval set of a non-empty index is never empty.            *)
(***************************************************************************)
C9_CutoffAboveBestScore ==
  /\ (script = "llama_intro" /\ Retrieved /\ similarity # <<>>
      /\ \A i \in 1..Len(similarity) : similarity[i] < SimilarityCutoff) =>
       /\ nodes = <<>>
       /\ ~Called("llm.complete")
       /\ \/ response = Some(NoRelevantContextResponse) /\ exc = None
          \/ /\ response = None /\ exc = Some(NoRelevantContextError)
             /\ Failed("execute_query")
       /\ uncaught = None
       /\ pc = "exit" =>
            /\ exitcode = Some(0)
            /\ exc = None => stdout = <<<<"Query Response:", "no relevant context">>>>
            /\ exc # None => (stdout = <<>> /\ Logged("CRITICAL"))
  /\ (script = "test_gemini" /\ query_engine # None) =>
       /\ query_engine[1].node_postprocessors = <<>>
       /\ (Retrieved /\ similarity # <<>>) => nodes # <<>>

\* The error case: the query raised and main ended normally.
C9_Witness ==
  /\ script = "llama_intro" /\ pc = "exit" /\ Retrieved
  /\ Len(similarity) = 3 /\ \A i \in 1..Len(similarity) : similarity[i] < SimilarityCutoff
  /\ exc = Some(NoRelevantContextError) /\ exitcode = Some(0) /\ uncaught = None

(***************************************************************************)
(* C10. The kind of error leaving load_documents_and_index names the step  *)
(* that failed: FileNotFoundError only when the directory does not exist,  *)
(* ValueError only when the reader returned zero documents, and every      *)
(* exception of the reader or of the index builder, whatever its type,     *)
(* leaves as RuntimeError with the original as cause; on success the count *)
(* is at least 1 and is the number of documents the index was built from.  *)
(***************************************************************************)
C10_ErrorKindNamesStep ==
  (script = "llama_intro" /\ InSeq("load_documents_and_index", started)) =>
    /\ Failed("load_documents_and_index") =>
         /\ exc[1].type \in {"FileNotFoundError", "ValueError", "RuntimeError"}
         /\ exc[1].type = "FileNotFoundError" =>
              ("data" \notin fs /\ ~Called("SimpleDirectoryReader.load_data") /\ libexc = None)
         /\ exc[1].type = "ValueError" => (ReaderReturned(0) /\ libexc = None)
         /\ exc[1].type = "RuntimeError" =>
              /\ libexc # None /\ exc[1].cause = AsCause(libexc[1])
              /\ CallRaised("SimpleDirectoryReader.load_data") \/ CallRaised("VectorStoreIndex.from_documents")
    /\ \A t \in LibErrors :
         (CallEnded("SimpleDirectoryReader.load_data", t) \/ CallEnded("VectorStoreIndex.from_documents", t)) =>
           /\ Failed("load_documents_and_index")
           /\ exc[1].type = "RuntimeError"
           /\ exc[1].cause = AsCause(LibExc(t))
    /\ InSeq("load_documents_and_index", done) =>
         /\ doc_count # None /\ index # None
         /\ doc_count[1] >= 1
         /\ doc_count[1] = Len(index[1].docs)
         /\ ReaderReturned(doc_count[1])
         /\ CallEnded("VectorStoreIndex.from_documents", "ok")

\* The reader itself raised FileNotFoundError on a directory that exists.
C10_Witness ==
  /\ script = "llama_intro" /\ Failed("load_documents_and_index") /\ "data" \in fs
  /\ CallEnded("SimpleDirectoryReader.load_data", "FileNotFoundError")
  /\ exc[1].type = "RuntimeError" /\ pc = "li_except"

====
